---- MODULE Spec2Model ----
(***************************************************************************)
(* A model of the BanditLab simulation core (src/js/core.js): the seeded   *)
(* generator, the Bernoulli environment, the four policies, the step loop  *)
(* of runBandit and the body of runSimulation.                             *)
(*                                                                         *)
(* Numbers.  The generator state is an unsigned 32-bit integer; it is held *)
(* as two 16-bit halves [hi, lo] and every operation on it is exact.  A    *)
(* number given to ">>> 0" is held as [ext, hi, lo] = ext*2^32 + hi*2^16 + *)
(* lo.  A real parameter (a probability, epsilon, c, a prior, a sample) is *)
(* held in fixed point, as the integer x*FX.  A running average is the     *)
(* double the source computes, held exactly as [num, den, err]: the        *)
(* fraction num/den in lowest terms is the value the three operations of   *)
(* prev + (reward - prev) / n have in real arithmetic, and err is what     *)
(* their three roundings to 53 significant bits added to it, in units of   *)
(* 1 / (den * 2^ErrBits).  Arms are numbered from 0 as in the source;      *)
(* arrays are sequences, so arm a is element a + 1.                        *)
(*                                                                         *)
(* Math.log, Math.sqrt, Math.cos and Math.pow are computed by integer      *)
(* series to the resolution 1/FX.  The generator, the Bernoulli draw,      *)
(* randInt and the running averages are exact; a Beta sample is the        *)
(* double of the source rounded to about three decimals, so a comparison   *)
(* of two samples closer than that can fall the other way.                 *)
(***************************************************************************)
EXTENDS Integers, Sequences, FiniteSets, TLC

\* ------------------------------------------------------------------ bounds

\* The largest configured step count.
MaxSteps == 4

\* The largest number of direct calls made on the generator and the
\* environment.
MaxCalls == 3

\* ------------------------------------------------------- program constants

LcgMultiplier == 1664525
LcgIncrement == 1013904223

\* ----------------------------------------------------------- number model

Half == 2 ^ 16
FX == 10 * 100
Ln2Micro == 693147
HalfPiFX == 1571
NegInf == -(Half * 16384)

Max(a, b) == IF a > b THEN a ELSE b

RECURSIVE Gcd(_, _)
Gcd(a, b) == IF b = 0 THEN a ELSE Gcd(b, a % b)

RECURSIVE SumSeq(_)
SumSeq(s) == IF s = <<>> THEN 0 ELSE Head(s) + SumSeq(Tail(s))

\* A number is num / den + err / (den * 2^ErrBits) with a positive
\* denominator: a fraction and the rounding error the double carries on top
\* of it.  A double has SignificandBits significant bits.
ErrBits == 64
SignificandBits == 53

\* An exact fraction in lowest terms, with a positive denominator.
Frac(n, d) ==
    LET g == Gcd(IF n < 0 THEN -n ELSE n, d)
    IN  [num |-> n \div g, den |-> d \div g, err |-> 0]

\* A fixed-point real as a fraction; NaN is the fraction 0 / 0.
Fixed(v) == [num |-> v, den |-> FX, err |-> 0]
NaN == [num |-> 0, den |-> 0, err |-> 0]
IsNaN(a) == a.den = 0

\* a > b on two numbers of the same fraction: the rounding errors decide.
ErrGt(a, b) ==
    LET g == Gcd(a.den, b.den)
    IN  a.err * (b.den \div g) > b.err * (a.den \div g)

\* a > b on numbers: false when either is NaN.  Two different fractions
\* are further apart than any rounding error.
NumGt(a, b) ==
    /\ ~IsNaN(a)
    /\ ~IsNaN(b)
    /\ \/ a.num * b.den > b.num * a.den
       \/ a.num * b.den = b.num * a.den /\ ErrGt(a, b)

\* 2^n modulo m, ten bits at a time.
RECURSIVE Pow2Mod(_, _)
Pow2Mod(n, m) ==
    IF n <= 10 THEN (2 ^ n) % m ELSE ((2 ^ 10) * Pow2Mod(n - 10, m)) % m

Lcm(a, b) == (a \div Gcd(a, b)) * b

\* The binade of x = a / b + e / (b * 2^ErrBits) > 0: the least k >= -1
\* with x >= 2^-(k + 1).
RECURSIVE binade(_, _, _, _)
binade(a, b, e, k) ==
    IF a * 2 ^ (k + 1) > b \/ (a * 2 ^ (k + 1) = b /\ e >= 0) THEN k
    ELSE binade(a, b, e, k + 1)

\* The error of a * 2^ErrBits + e once rounded to the nearest multiple of
\* m, to the even multiple when it lies half way.
roundToMultiple(a, e, m) ==
    LET n2 == (a * Pow2Mod(ErrBits, 2 * m) + e) % (2 * m)
        rho == n2 % m
        up == 2 * rho > m \/ (2 * rho = m /\ n2 >= m)
    IN  IF up THEN e + m - rho ELSE e - rho

\* The double nearest to x, which is the result of every arithmetic
\* operation on doubles: in the binade k one unit in the last place is
\* 2^-(k + SignificandBits).  A fraction of 0 arises only without an error
\* (the average is 0 or 1 exactly when every reward was), and 0 is a double.
roundDouble(x) ==
    IF x.num = 0 THEN Frac(0, 1)
    ELSE LET s == IF x.num < 0 THEN -1 ELSE 1
             k == binade(s * x.num, x.den, s * x.err, -1)
             m == x.den * 2 ^ (ErrBits - SignificandBits - k)
             e == s * roundToMultiple(s * x.num, s * x.err, m)
             g == Gcd(s * x.num, x.den)
         IN  [num |-> x.num \div g, den |-> x.den \div g, err |-> e \div g]

\* floor(sqrt(n)) for n >= 0, by Newton's iteration.
RECURSIVE IsqrtIter(_, _)
IsqrtIter(n, x) ==
    LET y == (x + n \div x) \div 2
    IN  IF y >= x THEN x ELSE IsqrtIter(n, y)

Isqrt(n) == IF n <= 0 THEN 0 ELSE IsqrtIter(n, n)

RECURSIVE Log2Floor(_)
Log2Floor(n) == IF n < 2 THEN 0 ELSE 1 + Log2Floor(n \div 2)

\* Math.log of the positive integer n, times FX: n = m * 2^k with m in
\* [1, 2) held as m * 1024, ln m = 2 (z + z^3/3 + z^5/5) with
\* z = (m - 1) / (m + 1).
LnSeries(z) ==
    2 * (z + (z * z * z) \div (3 * FX * FX)
           + ((((z * z * z) \div (FX * FX)) * z * z) \div (FX * FX)) \div 5)

LnMantissa(m) == LnSeries(((m - 1024) * FX) \div (m + 1024))

LnNormalised(n, k) ==
    (k * Ln2Micro) \div 1000
        + LnMantissa(IF k >= 10 THEN n \div (2 ^ (k - 10)) ELSE n * (2 ^ (10 - k)))

LnInt(n) == LnNormalised(n, Log2Floor(n))

\* Math.log of the real x held as xs = x * FX; Math.log(0) is -Infinity.
FxLog(xs) == IF xs <= 0 THEN NegInf ELSE LnInt(xs) - LnInt(FX)

\* Math.sqrt of the real x >= 0 held as xs.
FxSqrt(xs) == Isqrt(xs * FX)

\* cos(y) for y in [0, pi/2] held as ys: 1 - y^2/2 + y^4/24 - y^6/720, from
\* y2 = y^2.
CosSeries(y2) ==
    FX - y2 \div 2 + ((y2 * y2) \div FX) \div 24
       - ((((y2 * y2) \div FX) * y2) \div FX) \div 720

CosQuadrant(ys) == CosSeries((ys * ys) \div FX)

\* ------------------------------------------------------ unsigned 32 bits

Word(hi, lo) == [hi |-> hi, lo |-> lo]
Num(ext, hi, lo) == [ext |-> ext, hi |-> hi, lo |-> lo]

\* seed >>> 0: the low 32 bits.
ToUint32(n) == Word(n.hi, n.lo)

\* The uniform state / 2^32 compared with the real held as ps:
\* state / 2^32 < ps / FX.
UniformLess(w, ps) == w.hi * FX + (w.lo * FX) \div Half < ps * Half

\* Math.log(state / 2^32), times FX.
UniformLog(w) ==
    IF w.hi > 0 THEN LnInt(w.hi * 16384 + w.lo \div 4) - (30 * Ln2Micro) \div 1000
    ELSE IF w.lo > 0 THEN LnInt(w.lo) - (32 * Ln2Micro) \div 1000
    ELSE NegInf

\* cos(2 * pi * state / 2^32), times FX: the quadrant q of the angle and the
\* angle ys within it.
CosTurn(q, ys) ==
    CASE q = 0 -> CosQuadrant(ys)
      [] q = 1 -> -CosQuadrant(HalfPiFX - ys)
      [] q = 2 -> -CosQuadrant(ys)
      [] OTHER -> CosQuadrant(HalfPiFX - ys)

UniformCos(w) == CosTurn(w.hi \div 16384, ((w.hi % 16384) * HalfPiFX) \div 16384)

\* ------------------------------------------------------------ SeededRNG

\* new SeededRNG(seed)
SeededRNG(seed) == [seed |-> ToUint32(seed), state |-> ToUint32(seed)]

\* A variant of reset() that leaves the state where it is.
rngResetKeepsState(r) == r

rngReset(r) == [r EXCEPT !.state = r.seed]

setSeed(r, seed) == [seed |-> ToUint32(seed), state |-> ToUint32(seed)]

\* A variant of the recurrence without the increment.
LcgStepNoIncrement(w) ==
    Word(((LcgMultiplier % Half) * w.hi + (LcgMultiplier \div Half) * w.lo
             + ((LcgMultiplier % Half) * w.lo) \div Half) % Half,
         ((LcgMultiplier % Half) * w.lo) % Half)

\* (1664525 * state + 1013904223) >>> 0, on 16-bit halves.
LcgStep(w) ==
    LET aHi == LcgMultiplier \div Half
        aLo == LcgMultiplier % Half
        cHi == LcgIncrement \div Half
        cLo == LcgIncrement % Half
        low == aLo * w.lo + cLo
    IN  Word((aLo * w.hi + aHi * w.lo + cHi + low \div Half) % Half, low % Half)

\* random(): the generator after the call; the value returned is its
\* state / 2^32.
random(r) == [r EXCEPT !.state = LcgStep(r.state)]

\* randInt(max) = Math.floor(random() * max) for an integer max.
randIntValue(w, max) == (w.hi * max + (w.lo * max) \div Half) \div Half

randInt(r, max) ==
    [rng |-> random(r), value |-> randIntValue(random(r).state, max)]

\* standardNormal(): two uniforms u1, u2; r = sqrt(-2 ln u1), x = r cos(2 pi u2).
\* With u1 = 0 the source computes r = Infinity, so x is +-Infinity: inf is
\* TRUE then and x holds the sign of the cosine.
boxMuller(r2, lnU, cosT) ==
    IF lnU = NegInf
    THEN [rng |-> r2, inf |-> TRUE, x |-> IF cosT < 0 THEN -1 ELSE 1]
    ELSE [rng |-> r2, inf |-> FALSE, x |-> (FxSqrt(-2 * lnU) * cosT) \div FX]

standardNormal(r) ==
    boxMuller(random(random(r)), UniformLog(random(r).state),
              UniformCos(random(random(r)).state))

\* The rejection loop of gammaSample for alpha >= 1 (lines 47-64), with d
\* and c fixed-point reals, in the order of the source: a normal x and
\* v = 1 + c x (gammaNormal); the do-while on v <= 0, then v = v^3 and the
\* uniform u (gammaCube); the two acceptance tests (gammaAccept).  An
\* infinite x gives v = -Infinity (the do-while draws again) or
\* v = Infinity, for which both tests compare with NaN or -Infinity and
\* fail, so the outer loop goes round again.
RECURSIVE marsagliaTsang(_, _, _)

gammaAccept(r3, x2, v, lnV, d, c) ==
    IF \/ UniformLess(r3.state, FX - (331 * ((x2 * x2) \div FX)) \div 10000)
       \/ /\ lnV # NegInf
          /\ UniformLog(r3.state) < x2 \div 2 + (d * (FX - v + lnV)) \div FX
    THEN [rng |-> r3, value |-> (d * v) \div FX, thrown |-> FALSE]
    ELSE marsagliaTsang(r3, d, c)

gammaTest(r3, x2, v, d, c) == gammaAccept(r3, x2, v, FxLog(v), d, c)

gammaCube(n, v1, d, c) ==
    IF v1 <= 0 THEN marsagliaTsang(n.rng, d, c)
    ELSE gammaTest(random(n.rng), (n.x * n.x) \div FX,
                   (((v1 * v1) \div FX) * v1) \div FX, d, c)

gammaNormal(n, d, c) ==
    IF n.inf
    THEN marsagliaTsang(IF n.x < 0 THEN n.rng ELSE random(n.rng), d, c)
    ELSE gammaCube(n, FX + (c * n.x) \div FX, d, c)

marsagliaTsang(r, d, c) == gammaNormal(standardNormal(r), d, c)

\* Math.pow(u, 1 / alpha) for 0 < alpha < 1, as exp(ln(u) / alpha) with
\* exp(y) for y <= 0 computed as 2^-k * e^f, f in (-ln 2, 0], by its series.
ExpSeries(f) ==
    FX + f + (f * f) \div (2 * FX) + ((((f * f) \div FX) * f) \div FX) \div 6
       + ((((((f * f) \div FX) * f) \div FX) * f) \div FX) \div 24

ExpScaled(y, k) ==
    IF k > 30 THEN 0 ELSE ExpSeries(y + k * (Ln2Micro \div 1000)) \div (2 ^ k)

FxExpNeg(y) == ExpScaled(y, (-y) \div (Ln2Micro \div 1000))

powLog(lnU, alpha) ==
    IF lnU = NegInf THEN 0 ELSE FxExpNeg((lnU * FX) \div alpha)

powUniform(w, alpha) == powLog(UniformLog(w), alpha)

\* d = alpha - 1/3 and c = 1 / sqrt(9 d).
gammaShape(r, d) == marsagliaTsang(r, d, (FX * FX) \div FxSqrt(9 * d))

\* gammaSample(alpha): throws for alpha <= 0; for alpha < 1 draws u and
\* returns gammaSample(alpha + 1) * u^(1/alpha).
RECURSIVE gammaSample(_, _)
gammaSample(r, alpha) ==
    IF alpha <= 0 THEN [rng |-> r, value |-> 0, thrown |-> TRUE]
    ELSE IF alpha < FX
    THEN [gammaSample(random(r), alpha + FX) EXCEPT
            !.value = (@ * powUniform(random(r).state, alpha)) \div FX]
    ELSE gammaShape(r, alpha - FX \div 3)

\* betaSample(alpha, beta) = x / (x + y) with x = gammaSample(alpha) and
\* then y = gammaSample(beta); 0 / 0 is NaN.
betaRatio(x, y) ==
    IF y.thrown THEN [rng |-> y.rng, thrown |-> TRUE, value |-> NaN]
    ELSE [rng |-> y.rng, thrown |-> FALSE,
          value |-> IF x.value + y.value = 0 THEN NaN
                    ELSE Fixed((x.value * FX) \div (x.value + y.value))]

betaSecond(x, beta) ==
    IF x.thrown THEN [rng |-> x.rng, thrown |-> TRUE, value |-> NaN]
    ELSE betaRatio(x, gammaSample(x.rng, beta))

betaSample(r, alpha, beta) == betaSecond(gammaSample(r, alpha), beta)

\* ------------------------------------------------------ utility functions

\* An array of n copies of v.
Filled(n, v) == [i \in 1..n |-> v]

RECURSIVE cumulativeSumFrom(_, _, _)
cumulativeSumFrom(arr, i, sum) ==
    IF i > Len(arr) THEN <<>>
    ELSE <<sum + arr[i]>> \o cumulativeSumFrom(arr, i + 1, sum + arr[i])

\* A variant of cumulativeSum that does not accumulate.
cumulativeSumFlat(arr) == arr

cumulativeSum(arr) == cumulativeSumFrom(arr, 1, 0)

\* A variant of bincount whose test is 0 < x, which drops arm 0.
bincountSkipsZero(arr, minLen) ==
    [k \in 1..minLen |->
        Cardinality({i \in 1..Len(arr) : arr[i] = k - 1 /\ arr[i] > 0})]

\* counts[x]++ for every x of arr with 0 <= x < minLen.
bincount(arr, minLen) ==
    [k \in 1..minLen |-> Cardinality({i \in 1..Len(arr) : arr[i] = k - 1})]

RECURSIVE argmaxScan(_, _, _)
argmaxScan(arr, i, maxIdx) ==
    IF i > Len(arr) THEN maxIdx
    ELSE IF NumGt(arr[i], arr[maxIdx]) THEN argmaxScan(arr, i + 1, i)
    ELSE argmaxScan(arr, i + 1, maxIdx)

\* The 0-based index of the first maximum; 0 for an empty array.
argmax(arr) == IF arr = <<>> THEN 0 ELSE argmaxScan(arr, 2, 1) - 1

\* Math.max(...arr) of a non-empty array of fixed-point reals.
RECURSIVE MathMax(_)
MathMax(arr) ==
    IF Len(arr) = 1 THEN arr[1] ELSE Max(arr[1], MathMax(Tail(arr)))

\* ---------------------------------------------------------- BernoulliBandit

BernoulliBandit(probs) ==
    [probs |-> probs,
     nArms |-> Len(probs),
     bestArm |-> argmax([i \in 1..Len(probs) |-> Fixed(probs[i])]),
     bestProb |-> MathMax(probs)]

\* A variant of pull that compares the last uniform drawn instead of drawing.
pullNoDraw(env, r, arm) ==
    [rng |-> r,
     reward |-> IF arm \in 0..(Len(env.probs) - 1)
                   /\ UniformLess(r.state, env.probs[arm + 1])
                THEN 1 ELSE 0]

\* pull(arm): probs[arm] is undefined for an arm outside the array, and
\* "random() < undefined" is false.
pull(env, r, arm) ==
    [rng |-> random(r),
     reward |-> IF arm \in 0..(Len(env.probs) - 1)
                   /\ UniformLess(random(r).state, env.probs[arm + 1])
                THEN 1 ELSE 0]

\* ----------------------------------------------------------------- policies

RandomPolicy(nArms) ==
    [name |-> "Random", nArms |-> nArms, explorationHistory |-> <<>>]

UCB(nArms, c) ==
    [name |-> "UCB", nArms |-> nArms, c |-> c,
     pulls |-> Filled(nArms, 0),
     avgRewards |-> Filled(nArms, Frac(0, 1)),
     totalPulls |-> 0,
     explorationHistory |-> <<>>]

EpsilonGreedy(nArms, epsilon, decay, minEpsilon) ==
    [name |-> "e-Greedy", nArms |-> nArms,
     initialEpsilon |-> epsilon, epsilon |-> epsilon,
     decay |-> decay, minEpsilon |-> minEpsilon,
     pulls |-> Filled(nArms, 0),
     avgRewards |-> Filled(nArms, Frac(0, 1)),
     totalPulls |-> 0,
     explorationHistory |-> <<>>]

ThompsonSampling(nArms, priorAlpha, priorBeta) ==
    [name |-> "Thompson", nArms |-> nArms,
     priorAlpha |-> priorAlpha, priorBeta |-> priorBeta,
     alphas |-> Filled(nArms, priorAlpha),
     betas |-> Filled(nArms, priorBeta),
     explorationHistory |-> <<>>]

\* The result of a selectArm() call.
Selected(agent, r, arm, flag) ==
    [agent |-> [agent EXCEPT !.explorationHistory = Append(@, flag)],
     rng |-> r, arm |-> arm, thrown |-> FALSE]

\* The arms of the warm-up loop: those with pulls[arm] === 0.
Unpulled(agent) == {a \in 0..(agent.nArms - 1) : agent.pulls[a + 1] = 0}

\* A variant of the warm-up scan that runs from the last arm down.
HighestOf(S) == CHOOSE a \in S : \A b \in S : a >= b

LowestOf(S) == CHOOSE a \in S : \A b \in S : a <= b

RandomPolicy_selectArm(agent, r) ==
    Selected(agent, randInt(r, agent.nArms).rng, randInt(r, agent.nArms).value,
             TRUE)

\* A variant of UCB.selectArm's flag: every step after warm-up is flagged as
\* exploration.
ucbChoiceAlwaysExplores(agent, r, bestArm, greedyArm) ==
    Selected(agent, r, bestArm, TRUE)

\* ucbValues[arm] = u + bonus with bonus = c * sqrt((2 * ln t) / N) and
\* u = avgRewards[arm].
ucbSum(u, bonus) ==
    [num |-> u.num * FX + bonus * u.den, den |-> u.den * FX, err |-> u.err * FX]

ucbValue(agent, arm) ==
    ucbSum(agent.avgRewards[arm + 1],
           (agent.c * FxSqrt((2 * FxLog(Max(1, agent.totalPulls) * FX))
                                \div agent.pulls[arm + 1])) \div FX)

\* isExploration = bestArm !== greedyArm
ucbChoice(agent, r, bestArm, greedyArm) ==
    Selected(agent, r, bestArm, bestArm # greedyArm)

UCB_selectArm(agent, r) ==
    IF Unpulled(agent) # {}
    THEN Selected(agent, r, LowestOf(Unpulled(agent)), TRUE)
    ELSE ucbChoice(agent, r,
                   argmax([i \in 1..agent.nArms |-> ucbValue(agent, i - 1)]),
                   argmax(agent.avgRewards))

\* A variant of EpsilonGreedy.selectArm that explores when the draw is below
\* epsilon + 1/FX.
EpsilonGreedy_selectArmLoose(agent, r) ==
    IF Unpulled(agent) # {}
    THEN Selected(agent, r, LowestOf(Unpulled(agent)), TRUE)
    ELSE IF UniformLess(random(r).state, agent.epsilon + 1)
    THEN Selected(agent, randInt(random(r), agent.nArms).rng,
                  randInt(random(r), agent.nArms).value, TRUE)
    ELSE Selected(agent, random(r), argmax(agent.avgRewards), FALSE)

EpsilonGreedy_selectArm(agent, r) ==
    IF Unpulled(agent) # {}
    THEN Selected(agent, r, LowestOf(Unpulled(agent)), TRUE)
    ELSE IF UniformLess(random(r).state, agent.epsilon)
    THEN Selected(agent, randInt(random(r), agent.nArms).rng,
                  randInt(random(r), agent.nArms).value, TRUE)
    ELSE Selected(agent, random(r), argmax(agent.avgRewards), FALSE)

\* samples = alphas.map((a, i) => rng.betaSample(a, betas[i])): the arms in
\* order from arm i on, each draw starting where the previous one ended; a
\* throw ends the map.
RECURSIVE thompsonSamples(_, _, _)

thompsonRest(s, rest) ==
    IF rest.thrown THEN rest ELSE [rest EXCEPT !.samples = <<s.value>> \o @]

thompsonNext(agent, s, i) ==
    IF s.thrown THEN [rng |-> s.rng, samples |-> <<>>, thrown |-> TRUE]
    ELSE thompsonRest(s, thompsonSamples(agent, s.rng, i + 1))

thompsonSamples(agent, r, i) ==
    IF i > agent.nArms THEN [rng |-> r, samples |-> <<>>, thrown |-> FALSE]
    ELSE thompsonNext(agent, betaSample(r, agent.alphas[i], agent.betas[i]), i)

\* isExploration = bestArm !== greedyArm
thompsonChoice(agent, r, bestArm, greedyArm) ==
    Selected(agent, r, bestArm, bestArm # greedyArm)

\* means[i] = a / (a + b)
posteriorMeans(agent) ==
    [i \in 1..agent.nArms |->
        [num |-> agent.alphas[i], den |-> agent.alphas[i] + agent.betas[i],
         err |-> 0]]

thompsonPick(agent, s) ==
    IF s.thrown
    THEN [agent |-> agent, rng |-> s.rng, arm |-> 0, thrown |-> TRUE]
    ELSE thompsonChoice(agent, s.rng, argmax(s.samples),
                        argmax(posteriorMeans(agent)))

ThompsonSampling_selectArm(agent, r) ==
    thompsonPick(agent, thompsonSamples(agent, r, 1))

selectArm(agent, r) ==
    CASE agent.name = "Random" -> RandomPolicy_selectArm(agent, r)
      [] agent.name = "UCB" -> UCB_selectArm(agent, r)
      [] agent.name = "e-Greedy" -> EpsilonGreedy_selectArm(agent, r)
      [] agent.name = "Thompson" -> ThompsonSampling_selectArm(agent, r)

\* reward - prev
meanDifference(prev, reward) ==
    roundDouble([num |-> reward * prev.den - prev.num, den |-> prev.den,
                 err |-> -prev.err])

\* (reward - prev) / n
meanQuotient(d, n) ==
    roundDouble([num |-> d.num, den |-> d.den * n, err |-> d.err])

\* prev + (reward - prev) / n
meanSum(prev, q) ==
    LET l == Lcm(prev.den, q.den)
    IN  roundDouble([num |-> prev.num * (l \div prev.den) + q.num * (l \div q.den),
                     den |-> l,
                     err |-> prev.err * (l \div prev.den) + q.err * (l \div q.den)])

\* A variant of the running average that divides by the pulls made before
\* this one.
runningMeanStale(prev, reward, n) ==
    meanSum(prev, meanQuotient(meanDifference(prev, reward), Max(n - 1, 1)))

\* avgRewards[arm] = prev + (reward - prev) / n
runningMean(prev, reward, n) ==
    meanSum(prev, meanQuotient(meanDifference(prev, reward), n))

RandomPolicy_update(agent, arm, reward) == agent

\* A variant of UCB.update that leaves totalPulls alone.
UCB_updateKeepsTotal(agent, arm, reward) ==
    [agent EXCEPT !.pulls[arm + 1] = @ + 1,
                  !.avgRewards[arm + 1] =
                      runningMean(@, reward, agent.pulls[arm + 1] + 1)]

UCB_update(agent, arm, reward) ==
    LET n == agent.pulls[arm + 1] + 1
    IN  [agent EXCEPT !.totalPulls = @ + 1,
                      !.pulls[arm + 1] = n,
                      !.avgRewards[arm + 1] = runningMean(@, reward, n)]

\* Math.max(minEpsilon, initialEpsilon / Math.sqrt(totalPulls))
decayedEpsilon(agent, totalPulls) ==
    Max(agent.minEpsilon,
        (agent.initialEpsilon * FX) \div FxSqrt(totalPulls * FX))

EpsilonGreedy_update(agent, arm, reward) ==
    LET n == agent.pulls[arm + 1] + 1
        total == agent.totalPulls + 1
    IN  [agent EXCEPT !.totalPulls = total,
                      !.pulls[arm + 1] = n,
                      !.epsilon = IF agent.decay THEN decayedEpsilon(agent, total)
                                  ELSE @,
                      !.avgRewards[arm + 1] = runningMean(@, reward, n)]

\* A variant of ThompsonSampling.update that counts every pull as a success.
ThompsonSampling_updateAlphaOnly(agent, arm, reward) ==
    [agent EXCEPT !.alphas[arm + 1] = @ + FX]

ThompsonSampling_update(agent, arm, reward) ==
    IF reward > 0 THEN [agent EXCEPT !.alphas[arm + 1] = @ + FX]
    ELSE [agent EXCEPT !.betas[arm + 1] = @ + FX]

update(agent, arm, reward) ==
    CASE agent.name = "Random" -> RandomPolicy_update(agent, arm, reward)
      [] agent.name = "UCB" -> UCB_update(agent, arm, reward)
      [] agent.name = "e-Greedy" -> EpsilonGreedy_update(agent, arm, reward)
      [] agent.name = "Thompson" -> ThompsonSampling_update(agent, arm, reward)

\* The exploration and exploitation counts of getStats().
totalExploration(agent) ==
    Cardinality({i \in 1..Len(agent.explorationHistory) : agent.explorationHistory[i]})

getStats(agent) ==
    [name |-> agent.name,
     totalExploration |-> totalExploration(agent),
     totalExploitation |->
        IF agent.name = "Random" THEN 0
        ELSE Len(agent.explorationHistory) - totalExploration(agent)]

\* ------------------------------------------------------------ configurations

\* The keys of config.algorithms in the order runSimulation runs them, and
\* the key of results each one fills.
AlgorithmOrder == <<"random", "ucb", "epsilon", "thompson">>

ResultName(key) ==
    CASE key = "random" -> "Random"
      [] key = "ucb" -> "UCB"
      [] key = "epsilon" -> "e-Greedy"
      [] key = "thompson" -> "Thompson"

\* Probability lists: two and three valid arms, a single arm, and a list
\* with a probability above 1 and one below 0.
ProbLists ==
    {<<250, 750>>, <<0, 1000, 500>>, <<500>>, <<500, 1250>>, <<-250, 500>>}

StepCounts == (-1)..MaxSteps

Seeds == {Num(0, 0, 0), Num(0, 0, 42), Num(0, 65535, 65535)}

\* The readings of Date.now(): milliseconds, above 2^32.
ClockValues == {Num(403, 1000, 2000), Num(403, 1000, 2017)}

AlgorithmSets == [{"random", "ucb", "epsilon", "thompson"} -> BOOLEAN]

UcbParams == {0, FX}
EpsilonParams ==
    {[epsilon |-> 0, epsilonDecay |-> FALSE, minEpsilon |-> 0],
     [epsilon |-> FX \div 2, epsilonDecay |-> FALSE, minEpsilon |-> 0],
     [epsilon |-> FX, epsilonDecay |-> TRUE, minEpsilon |-> FX \div 4]}
ThompsonParams ==
    {[priorAlpha |-> FX, priorBeta |-> FX],
     [priorAlpha |-> FX \div 2, priorBeta |-> 2 * FX],
     [priorAlpha |-> FX, priorBeta |-> 0]}

\* The parameters of an algorithm that is not enabled are not read; they
\* are held at the first value of their set.
MakeConfig(probs, numSteps, algorithms, ucbC, eps, th, seed) ==
    [probs |-> probs, numSteps |-> numSteps, algorithms |-> algorithms,
     ucbC |-> ucbC,
     epsilon |-> eps.epsilon, epsilonDecay |-> eps.epsilonDecay,
     minEpsilon |-> eps.minEpsilon,
     priorAlpha |-> th.priorAlpha, priorBeta |-> th.priorBeta,
     seed |-> seed]

DefaultEpsilon == [epsilon |-> 0, epsilonDecay |-> FALSE, minEpsilon |-> 0]
DefaultThompson == [priorAlpha |-> FX, priorBeta |-> FX]

ConfigsOver(probLists, stepCounts, seeds) ==
    {MakeConfig(p, n, a, c, e, th, sd) :
        p \in probLists, n \in stepCounts, a \in AlgorithmSets,
        c \in UcbParams, e \in EpsilonParams, th \in ThompsonParams,
        sd \in seeds}

ReadsParams(cfg) ==
    /\ (~cfg.algorithms["ucb"] => cfg.ucbC = 0)
    /\ (~cfg.algorithms["epsilon"] =>
            [epsilon |-> cfg.epsilon, epsilonDecay |-> cfg.epsilonDecay,
             minEpsilon |-> cfg.minEpsilon] = DefaultEpsilon)
    /\ (~cfg.algorithms["thompson"] =>
            [priorAlpha |-> cfg.priorAlpha, priorBeta |-> cfg.priorBeta]
                = DefaultThompson)

Configs == {cfg \in ConfigsOver(ProbLists, StepCounts, Seeds) : ReadsParams(cfg)}

\* What section 6 of the specification calls a valid configuration.
ValidProbs(probs) ==
    Len(probs) >= 2 /\ \A i \in 1..Len(probs) : probs[i] >= 0 /\ probs[i] <= FX

SomeEnabled(cfg) == \E k \in DOMAIN cfg.algorithms : cfg.algorithms[k]

ValidConfig(cfg) ==
    /\ ValidProbs(cfg.probs)
    /\ cfg.numSteps > 0
    /\ SomeEnabled(cfg)
    /\ cfg.priorAlpha > 0 /\ cfg.priorBeta > 0

\* ------------------------------------------------------------------- state

VARIABLES
    config,      \* the argument of the runSimulation call
    rng,         \* the global generator: [seed, state]
    pc,          \* where the call is
    algIdx,      \* the position in AlgorithmOrder
    env,         \* const env of the running block
    agent,       \* const agent of the running block
    rewards,     \* runBandit's rewards array
    chosenArms,  \* runBandit's chosenArms array
    t,           \* runBandit's loop counter
    arm,         \* const arm of the running step
    reward,      \* const reward of the running step
    results,     \* runSimulation's results object
    ret,         \* what the call returned to its caller
    error,       \* the exception thrown, "none" before
    calls,       \* the number of runSimulation calls begun
    prev,        \* the previous call: its config, results and outcome
    api          \* the last direct call on the generator or environment

vars == <<config, rng, pc, algIdx, env, agent, rewards, chosenArms, t, arm,
          reward, results, ret, error, calls, prev, api>>

locals == <<env, agent, rewards, chosenArms, t, arm, reward>>

\* An empty slot of new Array(n), and the values of names not yet bound.
Hole == 0 - 1
NoEnv == [probs |-> <<>>, nArms |-> 0, bestArm |-> 0, bestProb |-> 0]
NoAgent == [name |-> "none", nArms |-> 0, explorationHistory |-> <<>>]
NoReturn == [returned |-> FALSE]
NoCall == [config |-> <<>>, results |-> <<>>, pc |-> "none",
           seed |-> Word(0, 0)]
NoApi == [op |-> "none", arg |-> 0, value |-> 0, thrown |-> FALSE,
          before |-> Word(0, 0)]

\* const rng = new SeededRNG(42), and a call about to be made.
InitWith(cfgs) ==
    /\ config \in cfgs
    /\ rng = SeededRNG(Num(0, 0, 42))
    /\ pc = "call"
    /\ algIdx = 1
    /\ env = NoEnv
    /\ agent = NoAgent
    /\ rewards = <<>>
    /\ chosenArms = <<>>
    /\ t = 0
    /\ arm = 0
    /\ reward = 0
    /\ results = <<>>
    /\ ret = NoReturn
    /\ error = "none"
    /\ calls = 1
    /\ prev = NoCall
    /\ api = NoApi

Init == InitWith(Configs)

\* ----------------------------------------------------------- runSimulation

IsZero(n) == n.ext = 0 /\ n.hi = 0 /\ n.lo = 0

\* seed || Date.now(): a seed of 0 is falsy.
SeedOrNow(seed, now) == IF IsZero(seed) THEN now ELSE seed

\* Lines 474-500: the derived metrics of one run.
PlotData(data, nArms, bestProb, numSteps) ==
    LET cumRewards == cumulativeSum(data.rewards)
        flags == [i \in 1..Len(data.agent.explorationHistory) |->
                    IF data.agent.explorationHistory[i] THEN 1 ELSE 0]
        cumExplores == cumulativeSum(flags)
    IN  [timesteps |-> [i \in 1..Max(numSteps, 0) |-> i],
         cumRewards |-> cumRewards,
         cumRegret |-> [i \in 1..Len(cumRewards) |->
                          i * bestProb - cumRewards[i] * FX],
         explorationRate |-> [i \in 1..Len(cumExplores) |->
                                Frac(cumExplores[i], i)],
         armPulls |-> bincount(data.chosenArms, nArms),
         totalReward |-> SumSeq(data.rewards),
         stats |-> getStats(data.agent)]

\* Lines 472-511: plotData for every entry of results, and the return.
Output(res) ==
    [returned |-> TRUE,
     plotData |-> [name \in DOMAIN res |->
                     PlotData(res[name], Len(config.probs),
                              MathMax(config.probs), config.numSteps)],
     config |-> [probs |-> config.probs, numSteps |-> config.numSteps,
                 bestProb |-> MathMax(config.probs),
                 nArms |-> Len(config.probs)]]

\* A variant of Throw in which runSimulation catches the exception and
\* returns the plot data of the algorithms that had completed.
ThrowReturnsPartial(message) ==
    /\ pc' = "returned"
    /\ error' = message
    /\ ret' = Output(results)

\* An exception leaves runSimulation, which has no try/catch: the caller
\* gets no value, and results is dropped with the frame.
Throw(message) ==
    /\ pc' = "thrown"
    /\ error' = message
    /\ ret' = NoReturn

\* Lines 396-416: destructure config, rng.setSeed(seed || Date.now()),
\* results = {}.
Enter(now) ==
    /\ pc = "call"
    /\ rng' = setSeed(rng, SeedOrNow(config.seed, now))
    /\ results' = <<>>
    /\ algIdx' = 1
    /\ pc' = "algorithm"
    /\ UNCHANGED <<config, locals, ret, error, calls, prev, api>>

\* if (algorithms.<key>) is false: the block is skipped.
Skip ==
    /\ pc = "algorithm"
    /\ algIdx <= Len(AlgorithmOrder)
    /\ ~config.algorithms[AlgorithmOrder[algIdx]]
    /\ algIdx' = algIdx + 1
    /\ UNCHANGED <<config, rng, pc, locals, results, ret, error, calls, prev, api>>

NewAgent(key, nArms) ==
    CASE key = "random" -> RandomPolicy(nArms)
      [] key = "ucb" -> UCB(nArms, config.ucbC)
      [] key = "epsilon" ->
            EpsilonGreedy(nArms, config.epsilon, config.epsilonDecay,
                          config.minEpsilon)
      [] key = "thompson" ->
            ThompsonSampling(nArms, config.priorAlpha, config.priorBeta)

\* The head of an enabled block: rng.reset(), new BernoulliBandit(probs),
\* new <Policy>(nArms, ...).
Build ==
    /\ pc = "algorithm"
    /\ algIdx <= Len(AlgorithmOrder)
    /\ config.algorithms[AlgorithmOrder[algIdx]]
    /\ rng' = rngReset(rng)
    /\ env' = BernoulliBandit(config.probs)
    /\ agent' = NewAgent(AlgorithmOrder[algIdx], Len(config.probs))
    /\ pc' = "run"
    /\ UNCHANGED <<config, algIdx, rewards, chosenArms, t, arm, reward,
                   results, ret, error, calls, prev, api>>

\* runBandit, lines 378-379: new Array(numSteps) throws a RangeError for a
\* negative length.
RunBandit ==
    /\ pc = "run"
    /\ IF config.numSteps < 0
       THEN /\ Throw("RangeError: Invalid array length")
            /\ UNCHANGED <<rewards, chosenArms, t>>
       ELSE /\ rewards' = Filled(config.numSteps, Hole)
            /\ chosenArms' = Filled(config.numSteps, Hole)
            /\ t' = 0
            /\ pc' = "select"
            /\ UNCHANGED <<ret, error>>
    /\ UNCHANGED <<config, rng, algIdx, env, agent, arm, reward, results,
                   calls, prev, api>>

\* const arm = agent.selectArm(); s is what the call gives.
Chosen(s) ==
    /\ rng' = s.rng
    /\ IF s.thrown
       THEN /\ Throw("Error: alpha must be > 0 for Gamma distribution")
            /\ UNCHANGED <<agent, arm>>
       ELSE /\ agent' = s.agent
            /\ arm' = s.arm
            /\ pc' = "pull"
            /\ UNCHANGED <<ret, error>>

SelectArm ==
    /\ pc = "select"
    /\ t < config.numSteps
    /\ Chosen(selectArm(agent, rng))
    /\ UNCHANGED <<config, algIdx, env, rewards, chosenArms, t, reward,
                   results, calls, prev, api>>

\* const reward = env.pull(arm)
Pull ==
    /\ pc = "pull"
    /\ rng' = pull(env, rng, arm).rng
    /\ reward' = pull(env, rng, arm).reward
    /\ pc' = "update"
    /\ UNCHANGED <<config, algIdx, env, agent, rewards, chosenArms, t, arm,
                   results, ret, error, calls, prev, api>>

\* A variant of the loop body that updates the policy with arm 0 whatever
\* arm was pulled.
UpdateFirstArm ==
    /\ pc = "update"
    /\ agent' = update(agent, 0, reward)
    /\ rewards' = [rewards EXCEPT ![t + 1] = reward]
    /\ chosenArms' = [chosenArms EXCEPT ![t + 1] = arm]
    /\ t' = t + 1
    /\ pc' = "select"
    /\ UNCHANGED <<config, rng, algIdx, env, arm, reward, results, ret, error,
                   calls, prev, api>>

\* agent.update(arm, reward); rewards[t] = reward; chosenArms[t] = arm; t++
Update ==
    /\ pc = "update"
    /\ agent' = update(agent, arm, reward)
    /\ rewards' = [rewards EXCEPT ![t + 1] = reward]
    /\ chosenArms' = [chosenArms EXCEPT ![t + 1] = arm]
    /\ t' = t + 1
    /\ pc' = "select"
    /\ UNCHANGED <<config, rng, algIdx, env, arm, reward, results, ret, error,
                   calls, prev, api>>

\* runBandit returns { rewards, chosenArms }; results[name] = { agent,
\* rewards, chosenArms, color }.
Store ==
    /\ pc = "select"
    /\ t >= config.numSteps
    /\ results' = (ResultName(AlgorithmOrder[algIdx]) :>
                      [agent |-> agent, rewards |-> rewards,
                       chosenArms |-> chosenArms]) @@ results
    /\ algIdx' = algIdx + 1
    /\ pc' = "algorithm"
    /\ UNCHANGED <<config, rng, locals, ret, error, calls, prev, api>>

Return ==
    /\ pc = "algorithm"
    /\ algIdx > Len(AlgorithmOrder)
    /\ ret' = Output(results)
    /\ pc' = "returned"
    /\ UNCHANGED <<config, rng, algIdx, locals, results, error, calls, prev, api>>

Next ==
    \/ \E now \in ClockValues : Enter(now)
    \/ Skip
    \/ Build
    \/ RunBandit
    \/ SelectArm
    \/ Pull
    \/ Update
    \/ Store
    \/ Return

Spec == Init /\ [][Next]_vars

\* runSimulation is synchronous and single-threaded: a call that has begun
\* runs on until it returns or throws.  The configurations of the fair
\* specification: two and three arms, a negative, a single and the largest
\* step count, seed 42.
ConfigsLive ==
    {cfg \in ConfigsOver({<<250, 750>>, <<0, 1000, 500>>},
                         {0 - 1, 1, MaxSteps}, {Num(0, 0, 42)}) :
        ReadsParams(cfg)}

InitLive == InitWith(ConfigsLive)

\* Next is enabled exactly while the call has neither returned nor thrown,
\* so weak fairness of Next, WF_vars(Next), is: the call is over infinitely
\* often or takes a step infinitely often.
Fairness == []<>(pc \in {"returned", "thrown"}) \/ []<><<Next>>_vars

SpecLive == InitLive /\ [][Next]_vars /\ Fairness

\* ------------------------------------------------- a second runSimulation call

\* The configurations of the two-call specification: valid ones, run for the
\* largest step count.
ConfigsTwice ==
    {cfg \in ConfigsOver({<<250, 750>>}, {MaxSteps}, Seeds) : ReadsParams(cfg)}

\* The algorithm selections that differ from a given one in at most one key.
NearSelections(a) ==
    {b \in AlgorithmSets : Cardinality({k \in DOMAIN a : a[k] # b[k]}) <= 1}

\* The caller calls runSimulation again once the first call has returned or
\* thrown, with the same configuration or with another selection of
\* algorithms; the global generator is as the first call left it.
CallAgain(selection) ==
    /\ pc \in {"returned", "thrown"}
    /\ calls = 1
    /\ prev' = [config |-> config, results |-> results, pc |-> pc,
                seed |-> rng.seed]
    /\ config' = [config EXCEPT !.algorithms = selection]
    /\ calls' = 2
    /\ pc' = "call"
    /\ algIdx' = 1
    /\ env' = NoEnv
    /\ agent' = NoAgent
    /\ rewards' = <<>>
    /\ chosenArms' = <<>>
    /\ t' = 0
    /\ arm' = 0
    /\ reward' = 0
    /\ results' = <<>>
    /\ ret' = NoReturn
    /\ error' = "none"
    /\ UNCHANGED <<rng, api>>

InitTwice == InitWith(ConfigsTwice)

NextTwice ==
    \/ Next
    \/ \E selection \in NearSelections(config.algorithms) : CallAgain(selection)

SpecTwice == InitTwice /\ [][NextTwice]_vars

\* --------------------------------- direct calls on the generator and environment

NoneEnabled == [k \in {"random", "ucb", "epsilon", "thompson"} |-> FALSE]

\* A generator seeded with any seed, an environment over any list, and no
\* runSimulation call in progress.
InitApi ==
    /\ \E p \in ProbLists :
          /\ env = BernoulliBandit(p)
          /\ config = MakeConfig(p, 0, NoneEnabled, 0, DefaultEpsilon,
                                 DefaultThompson, Num(0, 0, 0))
    /\ \E sd \in Seeds : rng = SeededRNG(sd)
    /\ pc = "api"
    /\ algIdx = 1
    /\ agent = NoAgent
    /\ rewards = <<>>
    /\ chosenArms = <<>>
    /\ t = 0
    /\ arm = 0
    /\ reward = 0
    /\ results = <<>>
    /\ ret = NoReturn
    /\ error = "none"
    /\ calls = 0
    /\ prev = NoCall
    /\ api = NoApi

\* env.pull(a) called directly, with any index.
ApiPull(a) ==
    /\ pc = "api"
    /\ calls < MaxCalls
    /\ rng' = pull(env, rng, a).rng
    /\ api' = [op |-> "pull", arg |-> a, value |-> pull(env, rng, a).reward,
               thrown |-> FALSE, before |-> rng.state]
    /\ calls' = calls + 1
    /\ UNCHANGED <<config, pc, algIdx, locals, results, ret, error, prev>>

\* rng.randInt(max) called directly, with any integer.
ApiRandInt(max) ==
    /\ pc = "api"
    /\ calls < MaxCalls
    /\ rng' = randInt(rng, max).rng
    /\ api' = [op |-> "randInt", arg |-> max, value |-> randInt(rng, max).value,
               thrown |-> FALSE, before |-> rng.state]
    /\ calls' = calls + 1
    /\ UNCHANGED <<config, pc, algIdx, locals, results, ret, error, prev>>

NextApi ==
    \/ \E a \in (-1)..(env.nArms + 1) : ApiPull(a)
    \/ \E max \in (-2)..3 : ApiRandInt(max)

SpecApi == InitApi /\ [][NextApi]_vars

\* ------------------------------------------ direct calls on the generator

\* The largest number of direct calls made on the generator.
MaxRngCalls == 6

\* The seeds given to setSeed: 0, 42 and a clock reading above 2^32.
RngSeeds == {Num(0, 0, 0), Num(0, 0, 42), Num(403, 1000, 2000)}

\* The record of the calls made on the generator: the last call, what it
\* returned (a uniform is held as the state it is the quotient of, an
\* integer as itself), the state before it, and two sequences of uniforms:
\* first holds those of the random() calls that came straight after the
\* last seeding, second those that came straight after the last reset();
\* run says which of the two the next random() extends ("none" once any
\* other call has been made), and others counts the draws other than
\* random() made since the last seeding.
FreshRng ==
    [op |-> "none", value |-> Word(0, 0), thrown |-> FALSE,
     before |-> Word(0, 0), first |-> <<>>, second |-> <<>>, run |-> "first",
     others |-> 0]

InitRng ==
    /\ \E sd \in RngSeeds : rng = SeededRNG(sd)
    /\ config = MakeConfig(<<>>, 0, NoneEnabled, 0, DefaultEpsilon,
                           DefaultThompson, Num(0, 0, 0))
    /\ env = NoEnv
    /\ agent = NoAgent
    /\ pc = "rng"
    /\ algIdx = 1
    /\ rewards = <<>>
    /\ chosenArms = <<>>
    /\ t = 0
    /\ arm = 0
    /\ reward = 0
    /\ results = <<>>
    /\ ret = NoReturn
    /\ error = "none"
    /\ calls = 0
    /\ prev = NoCall
    /\ api = FreshRng

RngFrame ==
    /\ calls' = calls + 1
    /\ UNCHANGED <<config, pc, algIdx, locals, results, ret, error, prev>>

\* rng.setSeed(sd)
RngSetSeed(sd) ==
    /\ pc = "rng"
    /\ calls < MaxRngCalls
    /\ rng' = setSeed(rng, sd)
    /\ api' = [FreshRng EXCEPT !.op = "setSeed", !.before = rng.state]
    /\ RngFrame

\* rng.reset()
RngReset ==
    /\ pc = "rng"
    /\ calls < MaxRngCalls
    /\ rng' = rngReset(rng)
    /\ api' = [api EXCEPT !.op = "reset", !.value = Word(0, 0),
                          !.thrown = FALSE, !.before = rng.state,
                          !.second = <<>>, !.run = "second"]
    /\ RngFrame

\* rng.random()
RngRandom ==
    /\ pc = "rng"
    /\ calls < MaxRngCalls
    /\ rng' = random(rng)
    /\ api' = [api EXCEPT !.op = "random", !.value = random(rng).state,
                          !.thrown = FALSE, !.before = rng.state,
                          !.first = IF api.run = "first"
                                    THEN Append(@, random(rng).state) ELSE @,
                          !.second = IF api.run = "second"
                                     THEN Append(@, random(rng).state) ELSE @]
    /\ RngFrame

\* What a call of op other than random() leaves, d being what it gives.
RngDrawn(op, d) ==
    /\ rng' = d.rng
    /\ api' = [api EXCEPT !.op = op, !.value = Word(0, 0),
                          !.thrown = d.thrown, !.before = rng.state,
                          !.run = "none", !.others = @ + 1]
    /\ RngFrame

\* rng.randInt(max)
RngRandInt(max) ==
    /\ pc = "rng"
    /\ calls < MaxRngCalls
    /\ RngDrawn("randInt", [rng |-> randInt(rng, max).rng, thrown |-> FALSE])

\* rng.standardNormal()
RngNormal ==
    /\ pc = "rng"
    /\ calls < MaxRngCalls
    /\ RngDrawn("standardNormal",
                [rng |-> standardNormal(rng).rng, thrown |-> FALSE])

\* rng.gammaSample(alpha)
RngGamma(alpha) ==
    /\ pc = "rng"
    /\ calls < MaxRngCalls
    /\ RngDrawn("gammaSample", gammaSample(rng, alpha))

\* rng.betaSample(alpha, beta)
RngBeta(alpha, beta) ==
    /\ pc = "rng"
    /\ calls < MaxRngCalls
    /\ RngDrawn("betaSample", betaSample(rng, alpha, beta))

NextRng ==
    \/ \E sd \in RngSeeds : RngSetSeed(sd)
    \/ RngReset
    \/ RngRandom
    \/ RngRandInt(3)
    \/ RngNormal
    \/ \E alpha \in {0, FX \div 2, 2 * FX} : RngGamma(alpha)
    \/ \E th \in ThompsonParams : RngBeta(th.priorAlpha, th.priorBeta)

SpecRng == InitRng /\ [][NextRng]_vars

\* ------------------------------------------------ direct calls on one policy

\* The largest number of direct calls made on a policy.
MaxPolicyCalls == 5

\* reset() of a policy: the state its constructor gave.
policyReset(a) ==
    CASE a.name = "Random" -> RandomPolicy(a.nArms)
      [] a.name = "UCB" -> UCB(a.nArms, a.c)
      [] a.name = "e-Greedy" ->
            EpsilonGreedy(a.nArms, a.initialEpsilon, a.decay, a.minEpsilon)
      [] a.name = "Thompson" ->
            ThompsonSampling(a.nArms, a.priorAlpha, a.priorBeta)

\* The parameters of the policies called directly: those of the
\* configurations, a larger exploration constant, and decaying epsilons with
\* a floor below and above the initial value.
PolicyUcbParams == UcbParams \cup {2 * FX}
PolicyEpsilonParams ==
    EpsilonParams \cup
        {[epsilon |-> FX \div 2, epsilonDecay |-> TRUE, minEpsilon |-> 0],
         [epsilon |-> FX \div 4, epsilonDecay |-> TRUE, minEpsilon |-> FX \div 2]}

Policies ==
    UNION {{RandomPolicy(n)}
           \cup {UCB(n, c) : c \in PolicyUcbParams}
           \cup {EpsilonGreedy(n, e.epsilon, e.epsilonDecay, e.minEpsilon) :
                    e \in PolicyEpsilonParams}
           \cup {ThompsonSampling(n, th.priorAlpha, th.priorBeta) :
                    th \in ThompsonParams} : n \in {2, 3}}

\* Generator states for the direct calls: after seed 42 and, for e-Greedy,
\* whose selectArm compares a uniform with epsilon, also the state whose
\* successor is 0, so that the next random() returns exactly 0.
PolicySeeds(a) ==
    IF a.name = "e-Greedy" THEN {Num(0, 0, 42), Num(0, 9686, 4069)}
    ELSE {Num(0, 0, 42)}

\* The record of the calls made on the policy so far: the last call, the
\* numbers of selectArm and update calls since construction or reset, and
\* whether the calls have followed the step loop of runBandit (a selectArm,
\* then the update of the arm it returned, and so on).
FreshPolicy ==
    [op |-> "none", arm |-> 0, reward |-> 0, selects |-> 0, updates |-> 0,
     looped |-> TRUE, pending |-> FALSE, thrown |-> FALSE]

InitPolicy ==
    /\ agent \in Policies
    /\ \E sd \in PolicySeeds(agent) : rng = SeededRNG(sd)
    /\ config = MakeConfig(<<>>, 0, NoneEnabled, 0, DefaultEpsilon,
                           DefaultThompson, Num(0, 0, 0))
    /\ env = NoEnv
    /\ pc = "policy"
    /\ algIdx = 1
    /\ rewards = <<>>
    /\ chosenArms = <<>>
    /\ t = 0
    /\ arm = 0
    /\ reward = 0
    /\ results = <<>>
    /\ ret = NoReturn
    /\ error = "none"
    /\ calls = 0
    /\ prev = NoCall
    /\ api = FreshPolicy

\* What a direct selectArm() call leaves: s is what the call gives.
PolicyChosen(s) ==
    /\ rng' = s.rng
    /\ agent' = s.agent
    /\ api' = [api EXCEPT !.op = "selectArm", !.arm = s.arm,
                          !.thrown = s.thrown,
                          !.selects = @ + 1,
                          !.looped = @ /\ ~api.pending,
                          !.pending = TRUE]

\* agent.selectArm() called directly.
PolicySelect ==
    /\ pc = "policy"
    /\ calls < MaxPolicyCalls
    /\ ~api.thrown
    /\ PolicyChosen(selectArm(agent, rng))
    /\ calls' = calls + 1
    /\ UNCHANGED <<config, pc, algIdx, env, rewards, chosenArms, t, arm,
                   reward, results, ret, error, prev>>

\* agent.update(a, r) called directly, with any arm of the policy and any
\* Bernoulli reward.
PolicyUpdate(a, r) ==
    /\ pc = "policy"
    /\ calls < MaxPolicyCalls
    /\ ~api.thrown
    /\ agent' = update(agent, a, r)
    /\ api' = [api EXCEPT !.op = "update", !.arm = a, !.reward = r,
                          !.updates = @ + 1,
                          !.looped = @ /\ api.pending /\ a = api.arm,
                          !.pending = FALSE]
    /\ calls' = calls + 1
    /\ UNCHANGED <<config, rng, pc, algIdx, env, rewards, chosenArms, t, arm,
                   reward, results, ret, error, prev>>

\* agent.reset() called directly.
PolicyReset ==
    /\ pc = "policy"
    /\ calls < MaxPolicyCalls
    /\ api.op # "none"
    /\ ~api.thrown
    /\ agent' = policyReset(agent)
    /\ api' = [FreshPolicy EXCEPT !.op = "reset"]
    /\ calls' = calls + 1
    /\ UNCHANGED <<config, rng, pc, algIdx, env, rewards, chosenArms, t, arm,
                   reward, results, ret, error, prev>>

NextPolicy ==
    \/ PolicySelect
    \/ \E a \in 0..(agent.nArms - 1), r \in {0, 1} : PolicyUpdate(a, r)
    \/ PolicyReset

SpecPolicy == InitPolicy /\ [][NextPolicy]_vars

\* ================================================================== claims

\* The runs of the current call and of the previous one agree on an algorithm.
SameRun(name) ==
    /\ results[name].rewards = prev.results[name].rewards
    /\ results[name].chosenArms = prev.results[name].chosenArms

BothReturned == calls = 2 /\ pc = "returned" /\ prev.pc = "returned"

\* C1: two runSimulation calls with an identical configuration (any seed,
\* seed 0 included) produce identical reward and chosen-arm sequences for
\* every enabled algorithm, whatever state the generator was left in.
C1_SameConfigSameRuns ==
    (BothReturned /\ config = prev.config) =>
        \A name \in DOMAIN results : SameRun(name)

\* C2: the generator is reset to the configured seed right before each
\* algorithm's environment and policy are built, so an algorithm's reward
\* and chosen-arm sequences are the same whichever other algorithms are
\* enabled in the request.
C2_ResetToConfiguredSeed ==
    /\ pc = "run" => rng.state = ToUint32(config.seed)
    /\ BothReturned =>
          \A name \in DOMAIN results \cap DOMAIN prev.results : SameRun(name)

\* C3: with no algorithm enabled runSimulation fails; it never returns
\* normally with an output that holds no per-algorithm result.
C3_EmptySelectionRejected ==
    pc = "returned" => (SomeEnabled(config) /\ DOMAIN ret.plotData # {})

\* C4: with fewer than two arms, or a probability outside [0, 1], the call
\* fails and runs no step.
C4_InvalidProbsRejected ==
    ~ValidProbs(config.probs) => pc \notin {"pull", "update", "returned"}

\* C5: driving a policy with a step count that is zero or negative fails:
\* runBandit returns no run result (not even an empty one) and no
\* selectArm, pull or update is executed.
C5_NonPositiveStepsRejected ==
    config.numSteps <= 0 =>
        (DOMAIN results = {} /\ pc \notin {"pull", "update"})

\* C6: pull(armIndex) with an index outside 0..armCount-1 fails; it does not
\* return a reward.
C6_PullOutOfRangeFails ==
    (api.op = "pull" /\ api.arg \notin 0..(env.nArms - 1)) => api.thrown

\* C7: nextInt(bound) fails whenever bound <= 0, and for a positive bound
\* returns an integer in 0..bound-1.
C7_RandIntBound ==
    api.op = "randInt" =>
        IF api.arg <= 0 THEN api.thrown
        ELSE ~api.thrown /\ api.value \in 0..(api.arg - 1)

\* The result names of the enabled algorithms.
EnabledNames(cfg) ==
    {ResultName(k) : k \in {k \in DOMAIN cfg.algorithms : cfg.algorithms[k]}}

\* C8: output is all-or-nothing: once any enabled algorithm's run has
\* thrown, the call has failed and has returned nothing, whatever runs had
\* completed before; a call that returns holds a result for every enabled
\* algorithm.
C8_AllOrNothing ==
    /\ error # "none" => (pc = "thrown" /\ ret = NoReturn)
    /\ pc = "returned" =>
          (error = "none" /\ DOMAIN ret.plotData = EnabledNames(config))
    /\ ret # NoReturn => pc = "returned"

\* A gamma draw throws after at least one earlier algorithm has completed.
C8_Witness ==
    /\ pc = "thrown"
    /\ error = "Error: alpha must be > 0 for Gamma distribution"
    /\ DOMAIN results # {}

\* C9: for every policy and every valid configuration the arm-pull histogram
\* of a completed run has one entry per arm and sums to the step count, every
\* chosen arm being an index in 0..armCount-1.
C9_HistogramSums ==
    (pc = "returned" /\ ValidConfig(config)) =>
        \A name \in DOMAIN ret.plotData :
            /\ Len(ret.plotData[name].armPulls) = Len(config.probs)
            /\ SumSeq(ret.plotData[name].armPulls) = config.numSteps
            /\ Len(results[name].chosenArms) = config.numSteps
            /\ \A i \in 1..Len(results[name].chosenArms) :
                  results[name].chosenArms[i] \in 0..(Len(config.probs) - 1)

\* A valid call with all four algorithms enabled has returned.
C9_Witness ==
    /\ pc = "returned"
    /\ ValidConfig(config)
    /\ config.numSteps = MaxSteps
    /\ DOMAIN ret.plotData = {"Random", "UCB", "e-Greedy", "Thompson"}

\* The counters of a policy after `steps` completed steps: UCB and
\* e-Greedy keep pulls and totalPulls; Thompson keeps only the pseudo-counts,
\* which grow by one unit a step; Random keeps only the history.
PolicyCounts(a, steps) ==
    /\ Len(a.explorationHistory) = steps
    /\ a.name \in {"UCB", "e-Greedy"} =>
          (SumSeq(a.pulls) = a.totalPulls /\ a.totalPulls = steps)
    /\ a.name = "Thompson" =>
          SumSeq(a.alphas) + SumSeq(a.betas)
              = a.nArms * (a.priorAlpha + a.priorBeta) + steps * FX

\* The exploration history over one step: selectArm appends one flag, pull
\* and update leave it alone.
HistoryStep ==
    /\ (pc = "select" /\ pc' = "pull") =>
          \E flag \in BOOLEAN :
              agent'.explorationHistory = Append(agent.explorationHistory, flag)
    /\ pc \in {"pull", "update"} =>
          agent'.explorationHistory = agent.explorationHistory

C11_WarmUpOrder ==
    (/\ api.op = "selectArm"
     /\ api.looped
     /\ agent.name \in {"UCB", "e-Greedy"}
     /\ api.selects <= agent.nArms) =>
        /\ api.arm = api.selects - 1
        /\ Len(agent.explorationHistory) = api.selects
        /\ \A i \in 1..api.selects : agent.explorationHistory[i]

\* The third selectArm() of a 3-arm e-Greedy policy in the step loop, the
\* first arm having paid 1 and the second 0.
C11_Witness ==
    /\ api.op = "selectArm"
    /\ api.looped
    /\ agent.name = "e-Greedy"
    /\ agent.nArms = 3
    /\ api.selects = 3
    /\ agent.avgRewards[1] = Frac(1, 1)
    /\ agent.avgRewards[2] = Frac(0, 1)
    /\ agent.pulls = <<1, 1, 0>>

\* x >= y for two numbers with positive denominators.
FracGe(x, y) == ~NumGt(y, x)

\* The lowest-indexed arm of maximum average reward.
GreedyArm(a) ==
    CHOOSE g \in 0..(a.nArms - 1) :
        /\ \A b \in 0..(a.nArms - 1) : FracGe(a.avgRewards[g + 1], a.avgRewards[b + 1])
        /\ \A b \in 0..(g - 1) : ~FracGe(a.avgRewards[b + 1], a.avgRewards[g + 1])

\* C12: for an e-Greedy policy with epsilon = 0 and no decay, every
\* selectArm() made once every arm has been pulled returns the arm of maximum
\* average reward, the lowest index on a tie, and flags the step as
\* exploitation, whatever the rewards were and whatever the generator state.
C12_PureExploitation ==
    (/\ api.op = "selectArm"
     /\ agent.name = "e-Greedy"
     /\ agent.initialEpsilon = 0
     /\ ~agent.decay
     /\ Unpulled(agent) = {}) =>
        /\ api.arm = GreedyArm(agent)
        /\ ~agent.explorationHistory[Len(agent.explorationHistory)]

\* After warm-up the draw of selectArm() is exactly 0 (the state is 0), and
\* the arm returned is the second one, whose average is the larger.
C12_Witness ==
    /\ api.op = "selectArm"
    /\ agent.name = "e-Greedy"
    /\ agent.initialEpsilon = 0
    /\ ~agent.decay
    /\ Unpulled(agent) = {}
    /\ rng.state = Word(0, 0)
    /\ api.arm = 1
    /\ agent.avgRewards[1] = Frac(0, 1)

\* The metrics of one returned run against its raw reward sequence r: best
\* is the largest probability of the configuration.
RunMetrics(pd, r, steps, best) ==
    /\ Len(r) = steps
    /\ \A i \in 1..steps : r[i] \in {0, 1}
    /\ Len(pd.cumRewards) = steps
    /\ \A i \in 1..steps : pd.cumRewards[i] = SumSeq(SubSeq(r, 1, i))
    /\ pd.totalReward \in 0..steps
    /\ steps > 0 => pd.totalReward = pd.cumRewards[steps]
    /\ Len(pd.cumRegret) = steps
    /\ \A i \in 1..steps :
          pd.cumRegret[i] = i * best - pd.cumRewards[i] * FX
    /\ steps > 0 => pd.cumRegret[steps] = steps * best - pd.totalReward * FX

\* C13: for every completed run, cumulativeReward is the sequence of prefix
\* sums of the 0/1 rewards and has length stepCount, totalReward is an
\* integer in 0..stepCount equal to the last cumulative reward, and
\* cumulativeRegret[i] = (i+1)*bestProbability - cumulativeReward[i], so the
\* last regret is stepCount*bestProbability - totalReward.
C13_CumulativeMetrics ==
    pc = "returned" =>
        \A name \in DOMAIN ret.plotData :
            /\ \E i \in 1..Len(config.probs) :
                  ret.config.bestProb = config.probs[i]
            /\ \A i \in 1..Len(config.probs) :
                  ret.config.bestProb >= config.probs[i]
            /\ RunMetrics(ret.plotData[name], results[name].rewards,
                          config.numSteps, ret.config.bestProb)

\* A returned UCB run of the largest step count that earned some rewards but
\* not all, on arms of probabilities 0.25 and 0.75.
C13_Witness ==
    /\ pc = "returned"
    /\ config.numSteps = MaxSteps
    /\ config.probs = <<250, 750>>
    /\ "UCB" \in DOMAIN ret.plotData
    /\ ret.plotData["UCB"].totalReward \in 2..(MaxSteps - 1)
    /\ ret.plotData["UCB"].cumRewards[1] = 0

\* The state after n draws from the state w.
RECURSIVE LcgAfter(_, _)
LcgAfter(w, n) == IF n = 0 THEN w ELSE LcgStep(LcgAfter(w, n - 1))

\* C14: for every seed s, the uniforms drawn straight after seeding the
\* generator with s and those drawn straight after a later reset() are the
\* same sequence, whatever other draws (uniform, normal, gamma, beta,
\* integer) were made between the seeding and the reset: reset() restores
\* the state to s, and the i-th uniform after either is the i-th term of the
\* recurrence started at s.
C14_ResetRedraws ==
    /\ \A i \in 1..Len(api.second) :
          i <= Len(api.first) => api.second[i] = api.first[i]
    /\ \A i \in 1..Len(api.first) : api.first[i] = LcgAfter(rng.seed, i)
    /\ \A i \in 1..Len(api.second) : api.second[i] = LcgAfter(rng.seed, i)
    /\ api.op = "reset" => rng.state = rng.seed

\* Seed 42: two uniforms, then other draws, then reset() and two uniforms.
C14_Witness ==
    /\ rng.seed = Word(0, 42)
    /\ Len(api.first) = 2
    /\ Len(api.second) = 2
    /\ api.others >= 1
    /\ api.run = "second"

\* The low half of (1664525 * state + 1013904223) mod 2^32.
LcgLowHalf(w) ==
    ((LcgMultiplier % Half) * w.lo + (LcgIncrement % Half)) % Half

\* C17: every random() call replaces the state by
\* (1664525 * state + 1013904223) mod 2^32 and returns state / 2^32; after
\* any seeding and any draws the state is an integer in 0..2^32-1, so every
\* uniform is in [0, 1) and never 1.  The recurrence is checked against its
\* low half and against the first terms from the seeds 0, 42 and 65538000
\* (the low 32 bits of the clock reading).
C17_LcgRecurrence ==
    /\ rng.state.hi \in 0..(Half - 1) /\ rng.state.lo \in 0..(Half - 1)
    /\ rng.seed.hi \in 0..(Half - 1) /\ rng.seed.lo \in 0..(Half - 1)
    /\ api.op = "random" =>
          /\ rng.state = LcgStep(api.before)
          /\ api.value = rng.state
          /\ rng.state.lo = LcgLowHalf(api.before)
          /\ api.before = Word(0, 0) => rng.state = Word(15470, 62303)
          /\ api.before = Word(15470, 62303) => rng.state = Word(18256, 10546)
          /\ api.before = Word(0, 42) => rng.state = Word(16537, 45441)
          /\ api.before = Word(16537, 45441) => rng.state = Word(5775, 23788)
          /\ api.before = Word(1000, 2000) => rng.state = Word(42404, 14575)

\* The third uniform in a row from seed 42: 37832 * 2^16 + 45915 over 2^32.
C17_Witness ==
    /\ api.op = "random"
    /\ rng.seed = Word(0, 42)
    /\ Len(api.first) = 3
    /\ rng.state = Word(37832, 45915)

\* An update() call on an e-Greedy policy with decay enabled.
DecayingUpdate ==
    /\ pc = "policy"
    /\ agent.name = "e-Greedy"
    /\ agent.decay
    /\ api'.op = "update"

\* C15: for an e-Greedy policy with decay enabled, after every update the
\* current epsilon equals max(minEpsilon, initialEpsilon / sqrt(totalPulls)),
\* and over any sequence of updates from a fresh policy the current epsilon
\* never increases, for every initialEpsilon and minEpsilon in [0, 1],
\* minEpsilon above initialEpsilon included.
C15_EpsilonDecays ==
    [][DecayingUpdate =>
          /\ agent'.epsilon = decayedEpsilon(agent', agent'.totalPulls)
          /\ agent'.epsilon <= agent.epsilon]_vars

\* The parameters with which no policy throws: the Thompson priors are
\* positive whenever Thompson sampling is enabled.
PolicyRuns(cfg) ==
    cfg.algorithms["thompson"] => (cfg.priorAlpha > 0 /\ cfg.priorBeta > 0)

\* One transition of the step loop: selectArm, then pull of the arm it
\* returned, then update with that arm and the reward just drawn, and only
\* then the next step; entry t of both sequences is written with the arm and
\* the reward of step t and no other entry is touched.
StepOrder ==
    /\ (pc = "select" /\ t < config.numSteps) =>
          /\ pc' \in {"pull", "thrown"}
          /\ pc' = "pull" =>
                /\ arm' = selectArm(agent, rng).arm
                /\ Len(agent'.explorationHistory) = t + 1
          /\ t' = t /\ rewards' = rewards /\ chosenArms' = chosenArms
    /\ pc = "pull" =>
          /\ pc' = "update"
          /\ arm' = arm
          /\ reward' = pull(env, rng, arm).reward
          /\ agent' = agent
          /\ t' = t /\ rewards' = rewards /\ chosenArms' = chosenArms
    /\ pc = "update" =>
          /\ pc' = "select"
          /\ agent' = update(agent, arm, reward)
          /\ rng' = rng
          /\ t' = t + 1
          /\ rewards'[t + 1] = reward /\ chosenArms'[t + 1] = arm
          /\ \A i \in 1..config.numSteps :
                i # t + 1 => (/\ rewards'[i] = rewards[i]
                              /\ chosenArms'[i] = chosenArms[i])
    /\ (pc = "select" /\ pc' = "algorithm") =>
          /\ t = config.numSteps
          /\ results'[agent.name].rewards = rewards
          /\ results'[agent.name].chosenArms = chosenArms

\* The sequences during and after a run: the entries of the steps done are
\* filled, those of the steps to come are empty, and a stored run has
\* stepCount entries.
StepsRecorded ==
    /\ pc \in {"select", "pull", "update"} =>
          /\ t \in 0..config.numSteps
          /\ Len(rewards) = config.numSteps
          /\ Len(chosenArms) = config.numSteps
          /\ \A i \in 1..config.numSteps :
                /\ i <= t => (rewards[i] \in {0, 1} /\ chosenArms[i] # Hole)
                /\ i > t => (rewards[i] = Hole /\ chosenArms[i] = Hole)
    /\ \A name \in DOMAIN results :
          /\ Len(results[name].rewards) = config.numSteps
          /\ Len(results[name].chosenArms) = config.numSteps
          /\ Len(results[name].agent.explorationHistory) = config.numSteps
          /\ \A i \in 1..config.numSteps :
                /\ results[name].rewards[i] \in {0, 1}
                /\ results[name].chosenArms[i] # Hole
    /\ (pc = "thrown" /\ config.numSteps > 0) => ~PolicyRuns(config)

DrawBelow(w, ps) ==
    IF ps <= 0 THEN FALSE
    ELSE IF ps >= FX THEN TRUE
    ELSE \/ w.hi < (ps * Half) \div FX
         \/ /\ w.hi = (ps * Half) \div FX
            /\ w.lo * FX < ((ps * Half) % FX) * Half

\* A pull(arm) call of the step loop on an arm of the environment.
PullStep ==
    (pc = "pull" /\ arm \in 0..(env.nArms - 1)) =>
        /\ rng'.state = LcgStep(rng.state)
        /\ rng'.seed = rng.seed
        /\ reward' = IF DrawBelow(rng'.state, env.probs[arm + 1]) THEN 1 ELSE 0
        /\ env.probs[arm + 1] = 0 => reward' = 0
        /\ env.probs[arm + 1] = FX => reward' = 1
        /\ env' = env
        /\ agent' = agent

\* C18: pull(arm) for an in-range arm advances the generator by exactly one
\* uniform draw and returns 1 if that draw is below the arm's probability and
\* 0 otherwise (an arm of probability 0 always pays 0, one of probability 1
\* always pays 1); it leaves the policy's state and the environment alone,
\* whose probability list, best arm and best probability stay what the
\* constructor made of the configured list.
C18_PullFrame ==
    /\ [][PullStep]_vars
    /\ [](pc \in {"run", "select", "pull", "update"} =>
            /\ env.probs = config.probs
            /\ env.nArms = Len(config.probs)
            /\ env.bestProb = MathMax(config.probs)
            /\ env.bestArm \in 0..(env.nArms - 1)
            /\ config.probs[env.bestArm + 1] = env.bestProb
            /\ \A i \in 1..env.bestArm : config.probs[i] < env.bestProb)

\* The arm of probability 1 has just paid 1 to a UCB policy that had pulled
\* the arm of probability 0 once, for nothing.
C18_Witness ==
    /\ pc = "update"
    /\ config.probs = <<0, 1000, 500>>
    /\ agent.name = "UCB"
    /\ agent.pulls = <<1, 0, 0>>
    /\ agent.avgRewards[1] = Frac(0, 1)
    /\ arm = 1
    /\ reward = 1

\* An update(a, r) call on a Thompson policy: one pseudo-count of arm a
\* grows by one unit, alpha for a reward above 0 and beta otherwise, and
\* nothing else of the policy changes.
ThompsonUpdateStep ==
    (pc = "policy" /\ agent.name = "Thompson" /\ api'.op = "update") =>
        /\ agent'.alphas =
              [i \in 1..agent.nArms |->
                  IF i = api'.arm + 1 /\ api'.reward > 0
                  THEN agent.alphas[i] + FX ELSE agent.alphas[i]]
        /\ agent'.betas =
              [i \in 1..agent.nArms |->
                  IF i = api'.arm + 1 /\ ~(api'.reward > 0)
                  THEN agent.betas[i] + FX ELSE agent.betas[i]]
        /\ SumSeq(agent'.alphas) + SumSeq(agent'.betas)
              = SumSeq(agent.alphas) + SumSeq(agent.betas) + FX
        /\ agent'.explorationHistory = agent.explorationHistory
        /\ agent'.priorAlpha = agent.priorAlpha
        /\ agent'.priorBeta = agent.priorBeta
        /\ agent'.nArms = agent.nArms

BestScoreArm(a) ==
    CHOOSE g \in 0..(a.nArms - 1) :
        /\ \A b \in 0..(a.nArms - 1) : FracGe(ucbValue(a, g), ucbValue(a, b))
        /\ \A b \in 0..(g - 1) : ~FracGe(ucbValue(a, b), ucbValue(a, g))

\* The last flag of the exploration history.
LastFlag(a) == a.explorationHistory[Len(a.explorationHistory)]

\* C20: after warm-up UCB selectArm() returns the arm of maximum score
\* averageReward + c * sqrt(2 ln(max(1, totalPulls)) / pulls), the lowest
\* index on a tie; the flag it appends is true exactly when that arm is not
\* the lowest-indexed arm of maximum average reward, and has no part in the
\* choice of the arm; with c = 0 the arm is always the greedy one and the
\* flag always false.  Neither selectArm nor update of UCB draws from the
\* generator.
C20_UcbChoice ==
    /\ [](/\ api.op = "selectArm"
          /\ agent.name = "UCB"
          /\ Unpulled(agent) = {}
          => /\ api.arm = BestScoreArm(agent)
             /\ LastFlag(agent) = (api.arm # GreedyArm(agent))
             /\ agent.c = 0 =>
                   (api.arm = GreedyArm(agent) /\ ~LastFlag(agent)))
    /\ [][(pc = "policy" /\ agent.name = "UCB"
              /\ api'.op \in {"selectArm", "update"}) => rng' = rng]_vars

\* A UCB policy with c > 0 has left warm-up and returns an arm that is not
\* the greedy one, flagged as exploration.
C20_Witness ==
    /\ api.op = "selectArm"
    /\ agent.name = "UCB"
    /\ agent.c > 0
    /\ Unpulled(agent) = {}
    /\ api.arm # GreedyArm(agent)
    /\ LastFlag(agent)

\* The policies that keep running averages.
Averaging(a) == a.name \in {"UCB", "e-Greedy"}

\* The sum of the rewards given to an arm, as its average and its pull
\* counter hold it: the fraction of the average times the counter.
RewardSum(a, i) ==
    (a.avgRewards[i].num * a.pulls[i]) \div a.avgRewards[i].den

\* The double of sum / pulls.
MeanQuotient(a, i) == roundDouble(Frac(RewardSum(a, i), a.pulls[i]))

\* x is within 2^-(SignificandBits - 1) of its fraction.
WithinRounding(x) ==
    LET bound == x.den * 2 ^ (ErrBits - SignificandBits + 1)
    IN  x.err <= bound /\ -x.err <= bound

\* 0 <= x <= 1 for a number with a positive denominator.
InUnitInterval(x) ==
    /\ x.num >= 0
    /\ x.num <= x.den
    /\ x.num = 0 => x.err >= 0
    /\ x.num = x.den => x.err <= 0

\* An update of a UCB or epsilon-greedy policy adds 1 to the pull counter of
\* its arm and the reward to the sum the arm's average stands for, and
\* changes neither the counter nor the average of any other arm.
MeanUpdateStep ==
    (pc = "policy" /\ Averaging(agent) /\ api'.op = "update") =>
        LET i == api'.arm + 1
        IN  /\ agent'.pulls[i] = agent.pulls[i] + 1
            /\ agent'.avgRewards[i].num * agent'.pulls[i]
                  = (RewardSum(agent, i) + api'.reward)
                        * agent'.avgRewards[i].den
            /\ \A j \in (1..agent.nArms) \ {i} :
                  /\ agent'.pulls[j] = agent.pulls[j]
                  /\ agent'.avgRewards[j] = agent.avgRewards[j]

====
